---- MODULE Spec2Model ----
(***************************************************************************)
(* One run of k8s-to-snyk.py: the Client is constructed (kube config, then *)
(* the policy file), the images of the cluster are collected, filtered,    *)
(* mapped to a Snyk organisation/integration and written to the targets    *)
(* file.  The cluster, the policy file and the failures of the environment *)
(* are the inputs.                                                         *)
(***************************************************************************)
EXTENDS Integers, Sequences, FiniteSets, TLC

\* ------------------------------------------------------------------ bounds
\* Most pods in the cluster.
MaxPods == 2

\* ------------------------------------------------------------------ values
\* Python's None in a slot that otherwise holds a string.
None == "<None>"

\* Python truthiness of a string-or-None value: None and "" are falsy.
Truthy(s) == s # None /\ s # ""

\* A list-or-None value (get_all_images returns a list or None).
NoneList == [isNone |-> TRUE, list |-> <<>>]

SomeList(l) == [isNone |-> FALSE, list |-> l]

Images == {"i1", "i2"}

\* The images in the order sorted() gives them.
ImageOrder == <<"i1", "i2">>

Namespaces == {"a", "b"}

LabelName == "team"

LabelValues == {"x", "y"}

\* What a pod runs and how it is labelled.  spec.containers is never empty,
\* spec.init_containers may be None (here <<>>); labels holds the value of
\* each label, None where the pod has none.
PodShapes ==
    {[containers |-> <<"i1">>, init_containers |-> <<>>, labels |-> [team |-> "x"]],
     [containers |-> <<"i1">>, init_containers |-> <<>>, labels |-> [team |-> "y"]],
     [containers |-> <<"i2">>, init_containers |-> <<>>, labels |-> [team |-> None]],
     [containers |-> <<"i2">>, init_containers |-> <<"i1">>, labels |-> [team |-> "y"]]}

Pods ==
    {[namespace |-> n, containers |-> s.containers,
      init_containers |-> s.init_containers, labels |-> s.labels] :
        n \in Namespaces, s \in PodShapes}

SeqsUpTo(S, n) == UNION {[1..k -> S] : k \in 0..n}

\* The `namespaces` lists: each namespace named at most once.
NamespaceLists ==
    {l \in SeqsUpTo(Namespaces, Cardinality(Namespaces)) :
        \A p, q \in 1..Len(l) : l[p] = l[q] => p = q}

Clusters == SeqsUpTo(Pods, MaxPods)

\* ------------------------------------------------------------ the policy
\* A rule of `values` or `default`: a missing key reads as None.
RuleA == [snyk_org_id |-> "O1", snyk_integration_id |-> "I1"]

RuleB == [snyk_org_id |-> "O2", snyk_integration_id |-> "I2"]

RuleUnusable == [snyk_org_id |-> None, snyk_integration_id |-> ""]

RuleDefault == [snyk_org_id |-> "O0", snyk_integration_id |-> "I0"]

NoRule == [snyk_org_id |-> None, snyk_integration_id |-> None]

ValueRules == {RuleA, RuleB, RuleUnusable}

\* The `values` dicts over a set of discriminators.
ValueMaps(keys) == UNION {[S -> ValueRules] : S \in SUBSET keys}

\* snyk_org_mapping; present = FALSE is the absent or empty dict.
EmptyMapping ==
    [present |-> FALSE, map_on |-> None, label |-> None,
     values |-> [k \in {} |-> NoRule], has_default |-> FALSE, default |-> NoRule]

Mappings ==
    {EmptyMapping}
    \cup {[present |-> TRUE, map_on |-> "namespace", label |-> None,
           values |-> v, has_default |-> d,
           default |-> IF d THEN RuleDefault ELSE NoRule] :
              v \in ValueMaps(Namespaces), d \in BOOLEAN}
    \cup {[present |-> TRUE, map_on |-> "label", label |-> LabelName,
           values |-> v, has_default |-> d,
           default |-> IF d THEN RuleDefault ELSE NoRule] :
              v \in ValueMaps(LabelValues), d \in BOOLEAN}

\* image_filter_regex_exclude: absent, a pattern that matches i1 only, and
\* a pattern re cannot compile.
RegexI1 == "i1"

RegexInvalid == "["

Regexes == {None, RegexI1, RegexInvalid}

\* re.search(pattern, image) for the patterns above.
ReSearch(pattern, image) == pattern = RegexI1 /\ image = "i1"

OutputPaths == {None, "out.json"}

\* config_data: a key that is absent reads as None with dict.get.
EmptyConfig ==
    [has_namespaces |-> FALSE, namespaces |-> <<>>,
     image_filter_regex_exclude |-> None,
     snyk_org_mapping |-> EmptyMapping,
     targets_file_output_path |-> None]

Config(h, n, r, m, o) ==
    [has_namespaces |-> h, namespaces |-> IF h THEN n ELSE <<>>,
     image_filter_regex_exclude |-> r,
     snyk_org_mapping |-> m,
     targets_file_output_path |-> o]

\* The policy documents of the runs: every mapping and `namespaces` list
\* with no filter and an output path, and every filter and output path with
\* the mappings below.
PipelineMappings ==
    {EmptyMapping,
     [present |-> TRUE, map_on |-> "namespace", label |-> None,
      values |-> [k \in {"a"} |-> RuleA], has_default |-> FALSE, default |-> NoRule],
     [present |-> TRUE, map_on |-> "label", label |-> LabelName,
      values |-> [k \in {"x"} |-> RuleA], has_default |-> FALSE, default |-> NoRule]}

Configs ==
    {Config(h, n, None, m, "out.json") :
        h \in BOOLEAN, n \in NamespaceLists, m \in Mappings}
    \cup {Config(h, n, r, m, o) :
        h \in BOOLEAN, n \in NamespaceLists, r \in Regexes,
        m \in PipelineMappings, o \in OutputPaths}

\* How the policy file reads.
ConfigStatuses == {"ok", "missing", "unsupported", "malformed", "unreadable"}

\* ------------------------------------------------------- pure functions
\* The images of a pod's containers and init containers.
PodImages(pod) ==
    {pod.containers[k] : k \in 1..Len(pod.containers)}
    \cup {pod.init_containers[k] : k \in 1..Len(pod.init_containers)}

\* list_namespaced_pod(namespace).items
ListNamespacedPod(ps, namespace) ==
    SelectSeq(ps, LAMBDA p : p.namespace = namespace)

\* sorted(list(all_images))
Sorted(S) == SelectSeq(ImageOrder, LAMBDA x : x \in S)

\* The set get_all_images collects when no listing call fails.
CollectImages(ps, scan, namespaces) ==
    IF scan
    THEN UNION {PodImages(ps[k]) :
                  k \in {n \in 1..Len(ps) :
                           \E q \in 1..Len(namespaces) :
                              ps[n].namespace = namespaces[q]}}
    ELSE UNION {PodImages(ps[k]) : k \in 1..Len(ps)}

\* pod_labels of get_image_labels, in the order the pods are listed: the
\* labels of each pod of the namespace that runs the image.
GetImageLabels(ps, namespace, image_name) ==
    LET run == SelectSeq(ListNamespacedPod(ps, namespace),
                         LAMBDA p : image_name \in PodImages(p))
    IN  [k \in 1..Len(run) |-> run[k].labels]

\* labels.get(label_name)
LabelGet(labels, label_name) ==
    IF label_name \in DOMAIN labels THEN labels[label_name] ELSE None

\* What map_image_to_snyk returns: None, or a dict of the rule's two ids.
NoTarget == [some |-> FALSE, orgId |-> None, integrationId |-> None]

Target(snyk_data) ==
    [some |-> TRUE, orgId |-> snyk_data.snyk_org_id,
     integrationId |-> snyk_data.snyk_integration_id]

\* The loop over pod_labels: the first pod whose label value is a key of
\* `values` decides.
RECURSIVE FirstLabelMatch(_, _, _)
FirstLabelMatch(snyk_mapping, pod_labels, k) ==
    IF k > Len(pod_labels)
    THEN NoTarget
    ELSE LET label_value == LabelGet(pod_labels[k], snyk_mapping.label)
         IN  IF /\ Truthy(label_value)
                /\ DOMAIN snyk_mapping.values # {}
                /\ label_value \in DOMAIN snyk_mapping.values
             THEN Target(snyk_mapping.values[label_value])
             ELSE FirstLabelMatch(snyk_mapping, pod_labels, k + 1)

\* map_image_to_snyk, given what get_image_labels returned (a list-or-None;
\* read in label mode only).
MapImageToSnyk(cfg, namespace, pod_labels) ==
    LET snyk_mapping == cfg.snyk_org_mapping
    IN  IF ~snyk_mapping.present
        THEN NoTarget
        ELSE IF snyk_mapping.map_on = "label"
        THEN IF pod_labels.isNone \/ Len(pod_labels.list) = 0
             THEN NoTarget
             ELSE FirstLabelMatch(snyk_mapping, pod_labels.list, 1)
        ELSE IF snyk_mapping.map_on = "namespace"
        THEN IF /\ DOMAIN snyk_mapping.values # {}
                /\ namespace \in DOMAIN snyk_mapping.values
             THEN Target(snyk_mapping.values[namespace])
             ELSE NoTarget
        ELSE NoTarget

\* Whether map_image_to_snyk makes a pod-listing call.
CallsGetImageLabels(cfg) ==
    cfg.snyk_org_mapping.present /\ cfg.snyk_org_mapping.map_on = "label"

\* The except clause as it reads: the error is logged and None returned.
ApiExceptHandled(g) == "handled"

\* `except client.exceptions.ApiException` of get_all_images and
\* get_image_labels.  The global `client` is the kubernetes module until
\* the main block binds the Client instance to the same name; from then on
\* evaluating the clause raises AttributeError, which leaves the method.
ApiExceptOutcome(g) ==
    IF g = "instance" THEN "AttributeError" ELSE "handled"

\* The loops without the `break` that follows the append.
NextPositionNoBreak(pi, pj, matched, nscan) ==
    IF pj >= nscan THEN <<pi + 1, 1>> ELSE <<pi, pj + 1>>

\* The two loops of the main block after one call of map_image_to_snyk at
\* image i, namespace j: a truthy result is appended and breaks the inner
\* loop.
NextPosition(pi, pj, matched, nscan) ==
    IF matched \/ pj >= nscan THEN <<pi + 1, 1>> ELSE <<pi, pj + 1>>

\* The targets create_targets_file builds from images_data.
BuildTargets(data) ==
    [k \in 1..Len(data) |->
        [orgId |-> data[k].orgId, integrationId |-> data[k].integrationId,
         target |-> [name |-> data[k].image]]]

NoFile == [exists |-> FALSE, path |-> None, targets |-> <<>>]

\* The default of create_targets_file's output_file parameter.
DefaultOutputFile == "imported-targets.json"

\* ------------------------------------------------------------- the state
VARIABLES
    pods,             \* the cluster's pods, in the order the API lists them
    pc,               \* where the main block stands
    client_global,    \* what the global name `client` is bound to
    api,              \* self.api is set
    config_status,    \* how the policy file read, "unread" before
    config_data,      \* self.config_data
    all_images,       \* all_images of the main block
    filtered_images,  \* filtered_images of the main block
    images_data,      \* images_data of the main block
    i,                \* position of the loop over filtered_images
    j,                \* position of the loop over namespaces_to_scan
    written,          \* the targets file this run wrote
    log,              \* the error-level messages logged
    exc,              \* the exception on its way to the main block's except
    exit_status,      \* the process's exit status, -1 while it runs
    kube_loads,       \* calls of config.load_kube_config
    api_calls,        \* pod-listing calls made against the cluster
    faults            \* the failures of the environment this run met

vars ==
    <<pods, config_status, pc, client_global, api, config_data, all_images, filtered_images,
      images_data, i, j, written, log, exc, exit_status, kube_loads,
      api_calls, faults>>

\* namespaces_to_scan of the main block: config_data.get("namespaces").
NamespacesToScan == config_data.namespaces

Init ==
    /\ pods \in Clusters
    /\ config_status = "unread"
    /\ pc = "load_kube_config"
    /\ client_global = "module"
    /\ api = FALSE
    /\ config_data = EmptyConfig
    /\ all_images = NoneList
    /\ filtered_images = NoneList
    /\ images_data = <<>>
    /\ i = 1
    /\ j = 1
    /\ written = NoFile
    /\ log = {}
    /\ exc = None
    /\ exit_status = -1
    /\ kube_loads = 0
    /\ api_calls = 0
    /\ faults = {}

\* An exception leaves the try block of the main block.
Raise(e) == exc' = e /\ pc' = "except"

\* Client.__init__, first line: _load_kube_config.
LoadKubeConfig ==
    /\ pc = "load_kube_config"
    /\ kube_loads' = kube_loads + 1
    /\ \E ok \in BOOLEAN :
          IF ok
          THEN /\ api' = TRUE
               /\ pc' = "load_config_file"
               /\ UNCHANGED <<log, exc, faults>>
          ELSE /\ log' = log \cup {"kube_config"}
               /\ faults' = faults \cup {"kube_credentials"}
               /\ Raise("ConfigException")
               /\ UNCHANGED api
    /\ UNCHANGED <<pods, config_status, client_global, config_data, all_images,
                   filtered_images, images_data, i, j, written, exit_status,
                   api_calls>>

\* Client.__init__, second line: _load_config_file; when it returns, the
\* main block binds the instance to the global name `client`.
LoadConfigFile ==
    /\ pc = "load_config_file"
    /\ \E status \in ConfigStatuses :
          /\ config_status' = status
          /\ CASE status = "ok" ->
                  /\ config_data' \in Configs
                  /\ client_global' = "instance"
                  /\ pc' = "get_all_images"
                  /\ UNCHANGED <<log, exc, faults>>
               [] status = "missing" ->
                     /\ config_data' = EmptyConfig
                     /\ client_global' = "instance"
                     /\ pc' = "get_all_images"
                     /\ faults' = faults \cup {"config_missing"}
                     /\ UNCHANGED <<log, exc>>
               [] status \in {"unsupported", "malformed"} ->
                     /\ config_data' = EmptyConfig
                     /\ client_global' = "instance"
                     /\ pc' = "get_all_images"
                     /\ log' = log \cup {"config_file"}
                     /\ faults' = faults \cup {"config_" \o status}
                     /\ UNCHANGED exc
               [] status = "unreadable" ->
                     /\ faults' = faults \cup {"config_unreadable"}
                     /\ Raise("OSError")
                     /\ UNCHANGED <<config_data, client_global, log>>
    /\ UNCHANGED <<pods, api, all_images, filtered_images, images_data, i, j,
                   written, exit_status, kube_loads, api_calls>>

\* namespaces_to_scan = config_data.get("namespaces");
\* all_images = client.get_all_images(namespaces_to_scan)
GetAllImages ==
    /\ pc = "get_all_images"
    /\ LET scan == config_data.has_namespaces /\ Len(NamespacesToScan) > 0
           ncalls == IF scan THEN Len(NamespacesToScan) ELSE 1
       IN  \E failAt \in 0..ncalls :
              IF failAt = 0
              THEN /\ api_calls' = api_calls + ncalls
                   /\ all_images' =
                         SomeList(Sorted(CollectImages(pods, scan, NamespacesToScan)))
                   /\ pc' = "filter_images"
                   /\ UNCHANGED <<log, exc, faults>>
              ELSE /\ api_calls' = api_calls + failAt
                   /\ faults' = faults \cup {"api_error"}
                   /\ IF ApiExceptOutcome(client_global) = "handled"
                      THEN /\ log' = log \cup {"fetch_pods"}
                           /\ all_images' = NoneList
                           /\ pc' = "filter_images"
                           /\ UNCHANGED exc
                      ELSE /\ Raise(ApiExceptOutcome(client_global))
                           /\ UNCHANGED <<log, all_images>>
    /\ UNCHANGED <<pods, config_status, client_global, api, config_data, filtered_images,
                   images_data, i, j, written, exit_status, kube_loads>>

\* exclude_regex = config_data.get("image_filter_regex_exclude");
\* filtered_images = client.filter_images(all_images, exclude_regex)
FilterImages ==
    /\ pc = "filter_images"
    /\ LET exclude_regex == config_data.image_filter_regex_exclude
       IN  IF ~Truthy(exclude_regex)
           THEN /\ filtered_images' = all_images
                /\ pc' = "map"
                /\ UNCHANGED <<log, exc>>
           ELSE IF all_images.isNone
           THEN /\ Raise("TypeError")
                /\ UNCHANGED <<filtered_images, log>>
           ELSE IF exclude_regex = RegexInvalid /\ Len(all_images.list) > 0
           THEN /\ log' = log \cup {"invalid_regex"}
                /\ filtered_images' = all_images
                /\ pc' = "map"
                /\ UNCHANGED exc
           ELSE /\ filtered_images' =
                      SomeList(SelectSeq(all_images.list,
                                         LAMBDA image : ~ReSearch(exclude_regex, image)))
                /\ pc' = "map"
                /\ UNCHANGED <<log, exc>>
    /\ UNCHANGED <<pods, config_status, client_global, api, config_data, all_images,
                   images_data, i, j, written, exit_status, kube_loads,
                   api_calls, faults>>

\* `for image in filtered_images` over None, or `for namespace in
\* namespaces_to_scan` over None with an image at hand: TypeError.
MapTypeError ==
    /\ pc = "map"
    /\ \/ filtered_images.isNone
       \/ /\ ~filtered_images.isNone
          /\ i <= Len(filtered_images.list)
          /\ ~config_data.has_namespaces
    /\ Raise("TypeError")
    /\ UNCHANGED <<pods, config_status, client_global, api, config_data, all_images,
                   filtered_images, images_data, i, j, written, log,
                   exit_status, kube_loads, api_calls, faults>>

\* One pass of the inner loop: map_image_to_snyk(namespace, image) and the
\* append that follows a truthy result.
MapImage ==
    /\ pc = "map"
    /\ ~filtered_images.isNone
    /\ i <= Len(filtered_images.list)
    /\ config_data.has_namespaces
    /\ j <= Len(NamespacesToScan)
    /\ LET image == filtered_images.list[i]
           namespace == NamespacesToScan[j]
           Step(pod_labels) ==
               LET snyk_mapping == MapImageToSnyk(config_data, namespace, pod_labels)
                   next == NextPosition(i, j, snyk_mapping.some, Len(NamespacesToScan))
               IN  /\ images_data' =
                         IF snyk_mapping.some
                         THEN Append(images_data,
                                     [image |-> image, orgId |-> snyk_mapping.orgId,
                                      integrationId |-> snyk_mapping.integrationId])
                         ELSE images_data
                   /\ i' = next[1]
                   /\ j' = next[2]
                   /\ pc' = "map"
                   /\ UNCHANGED exc
       IN  IF CallsGetImageLabels(config_data)
           THEN /\ api_calls' = api_calls + 1
                /\ \E fails \in BOOLEAN :
                      IF ~fails
                      THEN /\ Step(SomeList(GetImageLabels(pods, namespace, image)))
                           /\ UNCHANGED <<log, faults>>
                      ELSE /\ faults' = faults \cup {"api_error"}
                           /\ IF ApiExceptOutcome(client_global) = "handled"
                              THEN /\ log' = log \cup {"fetch_labels"}
                                   /\ Step(NoneList)
                              ELSE /\ Raise(ApiExceptOutcome(client_global))
                                   /\ UNCHANGED <<images_data, i, j, log>>
           ELSE /\ Step(NoneList)
                /\ UNCHANGED <<api_calls, log, faults>>
    /\ UNCHANGED <<pods, config_status, client_global, api, config_data, all_images,
                   filtered_images, written, exit_status, kube_loads>>

\* The loops are over: every image is done, or the inner loop has nothing
\* to run over (an empty `namespaces` list).
MapDone ==
    /\ pc = "map"
    /\ ~filtered_images.isNone
    /\ \/ i > Len(filtered_images.list)
       \/ config_data.has_namespaces /\ Len(NamespacesToScan) = 0
    /\ pc' = "create_targets_file"
    /\ UNCHANGED <<pods, config_status, client_global, api, config_data, all_images,
                   filtered_images, images_data, i, j, written, log, exc,
                   exit_status, kube_loads, api_calls, faults>>

\* client.create_targets_file(images_data,
\*                            config_data.get("targets_file_output_path"))
CreateTargetsFile ==
    /\ pc = "create_targets_file"
    /\ LET output_file == config_data.targets_file_output_path
       IN  IF output_file = None
           THEN /\ log' = log \cup {"write_file"}
                /\ UNCHANGED <<written, faults>>
           ELSE \E writable \in BOOLEAN :
                   IF writable
                   THEN /\ written' = [exists |-> TRUE, path |-> output_file,
                                       targets |-> BuildTargets(images_data)]
                        /\ UNCHANGED <<log, faults>>
                   ELSE /\ log' = log \cup {"write_file"}
                        /\ faults' = faults \cup {"output_unwritable"}
                        /\ UNCHANGED written
    /\ pc' = "exit"
    /\ UNCHANGED <<pods, config_status, client_global, api, config_data, all_images,
                   filtered_images, images_data, i, j, exc, exit_status,
                   kube_loads, api_calls>>

\* except Exception as e: logger.exception(...)
MainExcept ==
    /\ pc = "except"
    /\ log' = log \cup {"unexpected"}
    /\ pc' = "exit"
    /\ UNCHANGED <<pods, config_status, client_global, api, config_data, all_images,
                   filtered_images, images_data, i, j, written, exc,
                   exit_status, kube_loads, api_calls, faults>>

\* The script runs off its end: the interpreter exits with status 0.
ProcessExit ==
    /\ pc = "exit"
    /\ exit_status' = 0
    /\ pc' = "done"
    /\ UNCHANGED <<pods, config_status, client_global, api, config_data, all_images,
                   filtered_images, images_data, i, j, written, log, exc,
                   kube_loads, api_calls, faults>>

Next ==
    \/ LoadKubeConfig
    \/ LoadConfigFile
    \/ GetAllImages
    \/ FilterImages
    \/ MapTypeError
    \/ MapImage
    \/ MapDone
    \/ CreateTargetsFile
    \/ MainExcept
    \/ ProcessExit

Spec == Init /\ [][Next]_vars

\* ------------------------------------------------------------ the claims
\* The policy of the run.
Policy == config_data.snyk_org_mapping

\* The pods that run an image, as positions of the pod list.
PodsRunning(image) == {n \in 1..Len(pods) : image \in PodImages(pods[n])}

\* What the policy discriminates a pod on.
Discriminator(pod) ==
    IF Policy.map_on = "namespace"
    THEN pod.namespace
    ELSE LabelGet(pod.labels, Policy.label)

\* The entries of the written targets file that name an image.
EntriesOf(image) ==
    {k \in 1..Len(written.targets) : written.targets[k].target.name = image}

Usable(rule) == Truthy(rule.snyk_org_id) /\ Truthy(rule.snyk_integration_id)

\* Every rule of `values` has both ids.
ValuesUsable == \A d \in DOMAIN Policy.values : Usable(Policy.values[d])

\* The configuration names the namespaces to scan.
ScansNamespaces == config_data.has_namespaces /\ Len(NamespacesToScan) > 0

\* C1: when the policy has a usable default rule and no entry of `values`
\* matches the discriminator of any pod that runs an image, the image is in
\* the written targets with the default rule's ids.  (Stated of the runs
\* that scan named namespaces and write the file.)
C1_DefaultFallback ==
    (/\ written.exists
     /\ ScansNamespaces
     /\ Policy.present
     /\ Policy.has_default
     /\ Usable(Policy.default))
    => \A k \in 1..Len(filtered_images.list) :
          LET image == filtered_images.list[k]
          IN  (\A n \in PodsRunning(image) :
                  Discriminator(pods[n]) \notin DOMAIN Policy.values)
              => \E e \in EntriesOf(image) :
                    /\ written.targets[e].orgId = Policy.default.snyk_org_id
                    /\ written.targets[e].integrationId =
                          Policy.default.snyk_integration_id

\* C2: with map_on=namespace and no default rule, an image that runs only in
\* namespaces that are not keys of `values` is absent from the written
\* targets.  (Stated of the policies whose rules all have both ids.)
C2_NoMatchNoDefault ==
    (/\ written.exists
     /\ Policy.present
     /\ Policy.map_on = "namespace"
     /\ ValuesUsable
     /\ ~Policy.has_default)
    => \A image \in Images :
          (/\ PodsRunning(image) # {}
           /\ \A n \in PodsRunning(image) :
                 pods[n].namespace \notin DOMAIN Policy.values)
          => EntriesOf(image) = {}

\* C3: with map_on=namespace, an image all of whose pods run in one
\* namespace that is a key of `values` is written with that rule's ids, and
\* with no other rule's.  (Stated of the policies whose rules all have both
\* ids.)
C3_ExactMatchPrecedence ==
    (/\ written.exists
     /\ Policy.present
     /\ Policy.map_on = "namespace"
     /\ ValuesUsable)
    => \A image \in Images, ns \in DOMAIN Policy.values :
          (/\ PodsRunning(image) # {}
           /\ \A n \in PodsRunning(image) : pods[n].namespace = ns)
          => \A e \in EntriesOf(image) :
                /\ written.targets[e].orgId = Policy.values[ns].snyk_org_id
                /\ written.targets[e].integrationId =
                      Policy.values[ns].snyk_integration_id

\* C4: every entry of the written targets has a non-empty orgId and a
\* non-empty integrationId.
C4_OnlyUsableRules ==
    written.exists
    => \A k \in 1..Len(written.targets) :
          /\ Truthy(written.targets[k].orgId)
          /\ Truthy(written.targets[k].integrationId)

\* C5: no image has two entries, neither in images_data nor in the written
\* targets.
C5_AtMostOneTargetPerImage ==
    /\ \A p, q \in 1..Len(images_data) :
          images_data[p].image = images_data[q].image => p = q
    /\ \A p, q \in 1..Len(written.targets) :
          written.targets[p].target.name = written.targets[q].target.name
          => p = q

\* C5's case: a written image that runs in two scanned namespaces whose
\* pods' discriminators are keys of `values` with different rules.
C5_Witness ==
    /\ pc = "done"
    /\ written.exists
    /\ \E e \in 1..Len(written.targets) :
          \E m, n \in PodsRunning(written.targets[e].target.name) :
             /\ pods[m].namespace # pods[n].namespace
             /\ \A o \in {m, n} :
                   /\ \E q \in 1..Len(NamespacesToScan) :
                         NamespacesToScan[q] = pods[o].namespace
                   /\ Discriminator(pods[o]) \in DOMAIN Policy.values
             /\ Policy.values[Discriminator(pods[m])]
                   # Policy.values[Discriminator(pods[n])]

\* The failures the run cannot recover from.
Unrecoverable ==
    {"kube_credentials", "config_unreadable", "config_malformed",
     "config_unsupported", "api_error", "output_unwritable"}

\* C6: a finished run that met an unrecoverable failure has logged an error
\* and a non-zero exit status; a run that met none exits with status zero.
C6_ExitStatusReflectsOutcome ==
    pc = "done"
    => IF faults \cap Unrecoverable # {}
       THEN log # {} /\ exit_status # 0
       ELSE exit_status = 0

\* C7: in a run whose policy file is missing, malformed or of an unsupported
\* format, the kube config is never loaded and no pod-listing call is made.
C7_ConfigErrorBeforeCluster ==
    config_status \in {"missing", "malformed", "unsupported"}
    => kube_loads = 0 /\ api_calls = 0

\* C8: a run whose configuration has no `namespaces` field, and that meets
\* no failure of the environment, raises nothing and reaches the write of
\* the targets file.
C8_AbsentNamespacesMeansAll ==
    (/\ pc = "done"
     /\ config_status = "ok"
     /\ ~config_data.has_namespaces
     /\ faults = {})
    => exc = None

\* C9: when the resolution phase completes and the output path is writable,
\* the targets are written to the configured path, or to
\* imported-targets.json when the configuration names none.
C9_DefaultOutputPath ==
    (/\ pc = "done"
     /\ config_status = "ok"
     /\ exc = None
     /\ "output_unwritable" \notin faults)
    => /\ written.exists
       /\ written.path =
             IF config_data.targets_file_output_path = None
             THEN DefaultOutputFile
             ELSE config_data.targets_file_output_path

\* C10: a run in which a pod-listing call failed writes no targets file.
C10_ApiFailureAborts ==
    "api_error" \in faults => ~written.exists

\* C10's case: the label lookup of get_image_labels failed after an earlier
\* image had been resolved.
C10_Witness ==
    /\ pc = "done"
    /\ "api_error" \in faults
    /\ CallsGetImageLabels(config_data)
    /\ Len(images_data) > 0

====
